---------------------------- MODULE Spec2Model ----------------------------
(***************************************************************************)
(* Model of lib/basis_transcode.cpp: ktxTexture2_TranscodeBasis and its    *)
(* two workers ktxTexture2_transcodeEtc1s (palette path) and               *)
(* ktxTexture2_transcodeUastc (universal path).                            *)
(*                                                                         *)
(* One call of ktxTexture2_TranscodeBasis on one container is followed     *)
(* statement group by statement group.  The container, the call's          *)
(* arguments and every answer of the collaborators (container factory,     *)
(* deferred loader, transcoding engine) are inputs.                        *)
(***************************************************************************)
EXTENDS Integers, Sequences, FiniteSets, TLC

(***************************************************************************)
(* Bounds of the model.                                                    *)
(***************************************************************************)
MaxLevels == 2
MaxLayers == 2

(***************************************************************************)
(* Layout of the supercompression global data (basis_sgd.h).               *)
(***************************************************************************)
SizeofGlobalHeader == 20
SizeofImageDesc == 16

NULL == "NULL"

Max(a, b) == IF a >= b THEN a ELSE b

RECURSIVE BitAnd(_, _)
BitAnd(a, b) ==
    IF a = 0 \/ b = 0 THEN 0
    ELSE (a % 2) * (b % 2) + 2 * BitAnd(a \div 2, b \div 2)

RECURSIVE Pow2(_)
Pow2(n) == IF n = 0 THEN 1 ELSE 2 * Pow2(n - 1)

\* x >> n on unsigned integers
ShiftRight(x, n) == x \div Pow2(n)

\* inline bool isPow2(uint32_t x) { return x && ((x & (x - 1U)) == 0U); }
isPow2(x) == x # 0 /\ BitAnd(x, x - 1) = 0

\* (w + (bw - 1)) / bw
getBlockWidth(w, bw) == (w + (bw - 1)) \div bw

getBlockHeight(h, bh) == (h + (bh - 1)) \div bh

\* _KTX_PADN(n, nbytes): nbytes rounded up to a multiple of n
KTX_PADN(n, nbytes) == n * ((nbytes + (n - 1)) \div n)

(***************************************************************************)
(* ktx_transcode_fmt_e and ktx_transcode_flag_bits_e.                      *)
(***************************************************************************)
AmbiguousFormats ==
    {"KTX_TTF_ETC", "KTX_TTF_BC1_OR_3",
     "KTX_TTF_PVRTC1_4_RGBA", "KTX_TTF_PVRTC2_4_RGBA"}

ConcreteFormats ==
    {"KTX_TTF_ETC1_RGB", "KTX_TTF_ETC2_RGBA", "KTX_TTF_ETC2_EAC_R11",
     "KTX_TTF_ETC2_EAC_RG11", "KTX_TTF_BC1_RGB", "KTX_TTF_BC3_RGBA",
     "KTX_TTF_BC4_R", "KTX_TTF_BC5_RG", "KTX_TTF_PVRTC1_4_RGB",
     "KTX_TTF_PVRTC2_4_RGB", "KTX_TTF_BC7_RGBA", "KTX_TTF_ASTC_4x4_RGBA",
     "KTX_TTF_RGB565", "KTX_TTF_BGR565", "KTX_TTF_RGBA4444",
     "KTX_TTF_RGBA32"}

\* Values of the enumeration the library has no Vulkan format for, and a
\* value outside the enumeration.
UnsupportedFormats == {"KTX_TTF_ATC_RGB", "KTX_TTF_OUT_OF_RANGE"}

TranscodeFormats == ConcreteFormats \cup AmbiguousFormats \cup UnsupportedFormats

TranscodeFlagBits ==
    {"KTX_TF_PVRTC_DECODE_TO_NEXT_POW2",
     "KTX_TF_TRANSCODE_ALPHA_DATA_TO_OPAQUE_FORMATS"}

VK_FORMAT_UNDEFINED == "VK_FORMAT_UNDEFINED"

(***************************************************************************)
(* The two format switches of ktxTexture2_TranscodeBasis.                  *)
(***************************************************************************)
ResolveOutputFormat_Swapped(outputFormat, hasAlpha) ==
    CASE outputFormat = "KTX_TTF_BC1_OR_3" ->
            IF hasAlpha THEN "KTX_TTF_BC1_RGB" ELSE "KTX_TTF_BC3_RGBA"
      [] outputFormat = "KTX_TTF_ETC" ->
            IF hasAlpha THEN "KTX_TTF_ETC1_RGB" ELSE "KTX_TTF_ETC2_RGBA"
      [] outputFormat = "KTX_TTF_PVRTC1_4_RGBA" ->
            IF hasAlpha THEN "KTX_TTF_PVRTC1_4_RGB" ELSE "KTX_TTF_PVRTC1_4_RGBA"
      [] outputFormat = "KTX_TTF_PVRTC2_4_RGBA" ->
            IF hasAlpha THEN "KTX_TTF_PVRTC2_4_RGB" ELSE "KTX_TTF_PVRTC2_4_RGBA"
      [] OTHER -> outputFormat

\* switch (outputFormat) "Do some format mapping."
ResolveOutputFormat(outputFormat, hasAlpha) ==
    CASE outputFormat = "KTX_TTF_BC1_OR_3" ->
            IF hasAlpha THEN "KTX_TTF_BC3_RGBA" ELSE "KTX_TTF_BC1_RGB"
      [] outputFormat = "KTX_TTF_ETC" ->
            IF hasAlpha THEN "KTX_TTF_ETC2_RGBA" ELSE "KTX_TTF_ETC1_RGB"
      [] outputFormat = "KTX_TTF_PVRTC1_4_RGBA" ->
            IF hasAlpha THEN "KTX_TTF_PVRTC1_4_RGBA" ELSE "KTX_TTF_PVRTC1_4_RGB"
      [] outputFormat = "KTX_TTF_PVRTC2_4_RGBA" ->
            IF hasAlpha THEN "KTX_TTF_PVRTC2_4_RGBA" ELSE "KTX_TTF_PVRTC2_4_RGB"
      [] OTHER -> outputFormat

VkFormatFor_IgnoreSrgb(outputFormat, srgb) ==
    CASE outputFormat = "KTX_TTF_ETC1_RGB" -> "VK_FORMAT_ETC2_R8G8B8_UNORM_BLOCK"
      [] outputFormat = "KTX_TTF_ETC2_RGBA" -> "VK_FORMAT_ETC2_R8G8B8A8_UNORM_BLOCK"
      [] outputFormat = "KTX_TTF_ETC2_EAC_R11" -> "VK_FORMAT_EAC_R11_UNORM_BLOCK"
      [] outputFormat = "KTX_TTF_ETC2_EAC_RG11" -> "VK_FORMAT_EAC_R11G11_UNORM_BLOCK"
      [] outputFormat = "KTX_TTF_BC1_RGB" -> "VK_FORMAT_BC1_RGB_UNORM_BLOCK"
      [] outputFormat = "KTX_TTF_BC3_RGBA" -> "VK_FORMAT_BC3_UNORM_BLOCK"
      [] outputFormat = "KTX_TTF_BC4_R" -> "VK_FORMAT_BC4_UNORM_BLOCK"
      [] outputFormat = "KTX_TTF_BC5_RG" -> "VK_FORMAT_BC5_UNORM_BLOCK"
      [] outputFormat \in {"KTX_TTF_PVRTC1_4_RGB", "KTX_TTF_PVRTC1_4_RGBA"} ->
            "VK_FORMAT_PVRTC1_4BPP_UNORM_BLOCK_IMG"
      [] outputFormat \in {"KTX_TTF_PVRTC2_4_RGB", "KTX_TTF_PVRTC2_4_RGBA"} ->
            "VK_FORMAT_PVRTC2_4BPP_UNORM_BLOCK_IMG"
      [] outputFormat = "KTX_TTF_BC7_RGBA" -> "VK_FORMAT_BC7_UNORM_BLOCK"
      [] outputFormat = "KTX_TTF_ASTC_4x4_RGBA" -> "VK_FORMAT_ASTC_4x4_UNORM_BLOCK"
      [] outputFormat = "KTX_TTF_RGB565" -> "VK_FORMAT_R5G6B5_UNORM_PACK16"
      [] outputFormat = "KTX_TTF_BGR565" -> "VK_FORMAT_B5G6R5_UNORM_PACK16"
      [] outputFormat = "KTX_TTF_RGBA4444" -> "VK_FORMAT_R4G4B4A4_UNORM_PACK16"
      [] outputFormat = "KTX_TTF_RGBA32" -> "VK_FORMAT_R8G8B8A8_UNORM"
      [] OTHER -> VK_FORMAT_UNDEFINED

\* switch (outputFormat) choosing vkFormat; VK_FORMAT_UNDEFINED stands for
\* the default: branch, which returns KTX_INVALID_VALUE.
VkFormatFor(outputFormat, srgb) ==
    CASE outputFormat = "KTX_TTF_ETC1_RGB" ->
            IF srgb THEN "VK_FORMAT_ETC2_R8G8B8_SRGB_BLOCK"
                    ELSE "VK_FORMAT_ETC2_R8G8B8_UNORM_BLOCK"
      [] outputFormat = "KTX_TTF_ETC2_RGBA" ->
            IF srgb THEN "VK_FORMAT_ETC2_R8G8B8A8_SRGB_BLOCK"
                    ELSE "VK_FORMAT_ETC2_R8G8B8A8_UNORM_BLOCK"
      [] outputFormat = "KTX_TTF_ETC2_EAC_R11" -> "VK_FORMAT_EAC_R11_UNORM_BLOCK"
      [] outputFormat = "KTX_TTF_ETC2_EAC_RG11" -> "VK_FORMAT_EAC_R11G11_UNORM_BLOCK"
      [] outputFormat = "KTX_TTF_BC1_RGB" ->
            IF srgb THEN "VK_FORMAT_BC1_RGB_SRGB_BLOCK"
                    ELSE "VK_FORMAT_BC1_RGB_UNORM_BLOCK"
      [] outputFormat = "KTX_TTF_BC3_RGBA" ->
            IF srgb THEN "VK_FORMAT_BC3_SRGB_BLOCK"
                    ELSE "VK_FORMAT_BC3_UNORM_BLOCK"
      [] outputFormat = "KTX_TTF_BC4_R" -> "VK_FORMAT_BC4_UNORM_BLOCK"
      [] outputFormat = "KTX_TTF_BC5_RG" -> "VK_FORMAT_BC5_UNORM_BLOCK"
      [] outputFormat \in {"KTX_TTF_PVRTC1_4_RGB", "KTX_TTF_PVRTC1_4_RGBA"} ->
            IF srgb THEN "VK_FORMAT_PVRTC1_4BPP_SRGB_BLOCK_IMG"
                    ELSE "VK_FORMAT_PVRTC1_4BPP_UNORM_BLOCK_IMG"
      [] outputFormat \in {"KTX_TTF_PVRTC2_4_RGB", "KTX_TTF_PVRTC2_4_RGBA"} ->
            IF srgb THEN "VK_FORMAT_PVRTC2_4BPP_SRGB_BLOCK_IMG"
                    ELSE "VK_FORMAT_PVRTC2_4BPP_UNORM_BLOCK_IMG"
      [] outputFormat = "KTX_TTF_BC7_RGBA" ->
            IF srgb THEN "VK_FORMAT_BC7_SRGB_BLOCK"
                    ELSE "VK_FORMAT_BC7_UNORM_BLOCK"
      [] outputFormat = "KTX_TTF_ASTC_4x4_RGBA" ->
            IF srgb THEN "VK_FORMAT_ASTC_4x4_SRGB_BLOCK"
                    ELSE "VK_FORMAT_ASTC_4x4_UNORM_BLOCK"
      [] outputFormat = "KTX_TTF_RGB565" -> "VK_FORMAT_R5G6B5_UNORM_PACK16"
      [] outputFormat = "KTX_TTF_BGR565" -> "VK_FORMAT_B5G6R5_UNORM_PACK16"
      [] outputFormat = "KTX_TTF_RGBA4444" -> "VK_FORMAT_R4G4B4A4_UNORM_PACK16"
      [] outputFormat = "KTX_TTF_RGBA32" ->
            IF srgb THEN "VK_FORMAT_R8G8B8A8_SRGB"
                    ELSE "VK_FORMAT_R8G8B8A8_UNORM"
      [] OTHER -> VK_FORMAT_UNDEFINED


(***************************************************************************)
(* Error codes.                                                            *)
(***************************************************************************)
KTX_SUCCESS == "KTX_SUCCESS"
KTX_FILE_DATA_ERROR == "KTX_FILE_DATA_ERROR"
KTX_FILE_READ_ERROR == "KTX_FILE_READ_ERROR"
KTX_INVALID_OPERATION == "KTX_INVALID_OPERATION"
KTX_INVALID_VALUE == "KTX_INVALID_VALUE"
KTX_OUT_OF_MEMORY == "KTX_OUT_OF_MEMORY"
KTX_TRANSCODE_FAILED == "KTX_TRANSCODE_FAILED"
KTX_UNSUPPORTED_FEATURE == "KTX_UNSUPPORTED_FEATURE"

KTX_SS_NONE == "KTX_SS_NONE"
KTX_SS_BASIS_UNIVERSAL == "KTX_SS_BASIS_UNIVERSAL"

KHR_DF_MODEL_UASTC == "KHR_DF_MODEL_UASTC"
KHR_DF_MODEL_ETC1S == "KHR_DF_MODEL_ETC1S"
KHR_DF_MODEL_RGBSDA == "KHR_DF_MODEL_RGBSDA"

KHR_DF_TRANSFER_SRGB == "KHR_DF_TRANSFER_SRGB"
KHR_DF_TRANSFER_LINEAR == "KHR_DF_TRANSFER_LINEAR"

KHR_DF_CHANNEL_UASTC_RGB == "KHR_DF_CHANNEL_UASTC_RGB"
KHR_DF_CHANNEL_UASTC_ALPHAPRESENT == "KHR_DF_CHANNEL_UASTC_ALPHAPRESENT"

(***************************************************************************)
(* ktxFormatSize of a Vulkan format, as the container factory derives it:  *)
(* texel block dimensions, bytes per block and minimum block count.        *)
(***************************************************************************)
FormatSize(vkFormat) ==
    CASE vkFormat \in {"VK_FORMAT_R5G6B5_UNORM_PACK16",
                       "VK_FORMAT_B5G6R5_UNORM_PACK16",
                       "VK_FORMAT_R4G4B4A4_UNORM_PACK16"} ->
            [blockWidth |-> 1, blockHeight |-> 1, blockBytes |-> 2,
             minBlocks |-> 1, compressed |-> FALSE]
      [] vkFormat \in {"VK_FORMAT_R8G8B8A8_SRGB", "VK_FORMAT_R8G8B8A8_UNORM"} ->
            [blockWidth |-> 1, blockHeight |-> 1, blockBytes |-> 4,
             minBlocks |-> 1, compressed |-> FALSE]
      [] vkFormat \in {"VK_FORMAT_PVRTC1_4BPP_SRGB_BLOCK_IMG",
                       "VK_FORMAT_PVRTC1_4BPP_UNORM_BLOCK_IMG"} ->
            [blockWidth |-> 4, blockHeight |-> 4, blockBytes |-> 8,
             minBlocks |-> 2, compressed |-> TRUE]
      [] vkFormat \in {"VK_FORMAT_ETC2_R8G8B8_SRGB_BLOCK",
                       "VK_FORMAT_ETC2_R8G8B8_UNORM_BLOCK",
                       "VK_FORMAT_EAC_R11_UNORM_BLOCK",
                       "VK_FORMAT_BC1_RGB_SRGB_BLOCK",
                       "VK_FORMAT_BC1_RGB_UNORM_BLOCK",
                       "VK_FORMAT_BC4_UNORM_BLOCK",
                       "VK_FORMAT_PVRTC2_4BPP_SRGB_BLOCK_IMG",
                       "VK_FORMAT_PVRTC2_4BPP_UNORM_BLOCK_IMG"} ->
            [blockWidth |-> 4, blockHeight |-> 4, blockBytes |-> 8,
             minBlocks |-> 1, compressed |-> TRUE]
      [] OTHER ->
            [blockWidth |-> 4, blockHeight |-> 4, blockBytes |-> 16,
             minBlocks |-> 1, compressed |-> TRUE]

\* The level alignment a KTX2 container requires: lcm(bytes per block, 4).
RequiredLevelAlignment(vkFormat) ==
    LET b == FormatSize(vkFormat).blockBytes
    IN  IF b % 4 = 0 THEN b ELSE IF b % 2 = 0 THEN 2 * b ELSE 4 * b

\* ktxTexture2_GetImageSize / ktxTexture_calcImageSize: bytes of one image
\* of `level` in a container of format vkFormat.
ImageSize(vkFormat, baseWidth, baseHeight, level) ==
    LET fs == FormatSize(vkFormat)
        w  == Max(1, ShiftRight(baseWidth, level))
        h  == Max(1, ShiftRight(baseHeight, level))
        bx == Max(fs.minBlocks, (w + fs.blockWidth - 1) \div fs.blockWidth)
        by == Max(fs.minBlocks, (h + fs.blockHeight - 1) \div fs.blockHeight)
    IN  bx * by * fs.blockBytes

\* Images of one level: numLayers * numFaces * MAX(1, baseDepth >> level).
LevelImageCount(T, level) ==
    T.numLayers * T.numFaces * Max(1, ShiftRight(T.baseDepth, level))

Levels(T) == 0 .. (T.numLevels - 1)

RECURSIVE SumFrom(_, _, _)
\* f[lo] + ... + f[hi]
SumFrom(f, lo, hi) == IF lo > hi THEN 0 ELSE f[lo] + SumFrom(f, lo + 1, hi)

\* Byte size of the data of a container of format vkFormat with the
\* geometry of T: every level above the base padded to the level alignment.
CalcDataSizeTexture(T, vkFormat) ==
    LET size == [l \in Levels(T) |->
                    LevelImageCount(T, l)
                    * ImageSize(vkFormat, T.baseWidth, T.baseHeight, l)]
        padded == [l \in Levels(T) |->
                    IF l = 0 THEN size[l]
                    ELSE KTX_PADN(RequiredLevelAlignment(vkFormat), size[l])]
    IN  SumFrom(padded, 0, T.numLevels - 1)

EmptyLevelIndexEntry ==
    [byteOffset |-> 0, byteLength |-> 0, uncompressedByteLength |-> 0]

NoDfd ==
    [id |-> NULL, model |-> "none", transfer |-> "none",
     channelId |-> "none", numComponents |-> 0]

\* Colour model of the descriptor the factory builds for a target format.
ModelOfFormat(vkFormat) ==
    IF FormatSize(vkFormat).compressed THEN "KHR_DF_MODEL_BLOCK_" \o vkFormat
    ELSE KHR_DF_MODEL_RGBSDA

\* ktxTexture2_Create(&createInfo, KTX_TEXTURE_CREATE_ALLOC_STORAGE, ...):
\* same geometry as T, format vkFormat, storage and level index allocated.
CreatePrototype(T, vkFormat) ==
    [vkFormat |-> vkFormat,
     isCompressed |-> FormatSize(vkFormat).compressed,
     supercompressionScheme |-> KTX_SS_NONE,
     baseWidth |-> T.baseWidth, baseHeight |-> T.baseHeight,
     baseDepth |-> T.baseDepth, numLevels |-> T.numLevels,
     numLayers |-> T.numLayers, numFaces |-> T.numFaces,
     requiredLevelAlignment |-> RequiredLevelAlignment(vkFormat),
     levelIndex |-> [l \in Levels(T) |-> EmptyLevelIndexEntry],
     pDfd |-> [id |-> "dfd_proto", model |-> ModelOfFormat(vkFormat),
               transfer |-> T.pDfd.transfer, channelId |-> "none",
               numComponents |-> 0],
     pData |-> "buf_proto",
     dataSize |-> CalcDataSizeTexture(T, vkFormat)]

NoPrototype == [pData |-> NULL, pDfd |-> NoDfd, dataSize |-> 0]


(***************************************************************************)
(* Supercompression global data of a palette (BasisLZ) container.          *)
(***************************************************************************)
\* firstImages[level], level in 0 .. numLevels: index of the first image of
\* each level, the last entry being the total image count.
RECURSIVE FirstImage(_, _)
FirstImage(T, level) ==
    IF level = 0 THEN 0
    ELSE FirstImage(T, level - 1)
         + (T.numLayers * T.numFaces) * Max(ShiftRight(T.baseDepth, level - 1), 1)

ImageCount(T) == FirstImage(T, T.numLevels)

\* BGD_TABLES_ADDR(0, bgdh, imageCount)
TablesAddr(bgdh, imageCount) ==
    SizeofGlobalHeader + SizeofImageDesc * imageCount
    + bgdh.endpointsByteLength + bgdh.selectorsByteLength

AlphaSlice == [alphaSliceByteOffset |-> 40, alphaSliceByteLength |-> 8]
NoAlphaSlice == [alphaSliceByteOffset |-> 0, alphaSliceByteLength |-> 0]

ImageDescs ==
    [alphaSliceByteOffset : {0, 40}, alphaSliceByteLength : {0, 8}]

SgdCases ==
    {"good", "overflow", "noEndpoints", "noSelectors", "noTables",
     "absent", "zeroLength"}

GlobalHeader(sgdCase) ==
    [endpointsByteLength |-> IF sgdCase = "noEndpoints" THEN 0 ELSE 3,
     selectorsByteLength |-> IF sgdCase = "noSelectors" THEN 0 ELSE 2,
     tablesByteLength |-> IF sgdCase = "noTables" THEN 0 ELSE 4]

SgdByteLength(sgdCase, imageCount) ==
    LET h == GlobalHeader(sgdCase)
        fit == TablesAddr(h, imageCount) + h.tablesByteLength
    IN  CASE sgdCase = "zeroLength" -> 0
          [] sgdCase = "overflow" -> fit - 1
          [] OTHER -> fit

(***************************************************************************)
(* The containers a call may be given.                                     *)
(***************************************************************************)
Kinds == {"etc1s", "uastc", "other"}

SourceImageSize(kind, w, h, level) ==
    IF kind = "etc1s" THEN 6
    ELSE 16 * getBlockWidth(Max(1, ShiftRight(w, level)), 4)
            * getBlockHeight(Max(1, ShiftRight(h, level)), 4)

RECURSIVE SourceLevelOffset(_, _, _, _, _, _)
\* Levels are stored smallest mip first.
SourceLevelOffset(kind, w, h, levels, layers, level) ==
    IF level = levels - 1 THEN 0
    ELSE SourceLevelOffset(kind, w, h, levels, layers, level + 1)
         + layers * SourceImageSize(kind, w, h, level + 1)

MkTexture(kind, transfer, alpha, w, h, levels, layers, dataState, sgdCase, descs) ==
    [supercompressionScheme |->
        IF kind = "etc1s" THEN KTX_SS_BASIS_UNIVERSAL ELSE KTX_SS_NONE,
     vkFormat |->
        IF kind = "other" THEN "VK_FORMAT_R8G8B8A8_UNORM" ELSE VK_FORMAT_UNDEFINED,
     isCompressed |-> FALSE,
     baseWidth |-> w, baseHeight |-> h, baseDepth |-> 1,
     numLevels |-> levels, numLayers |-> layers, numFaces |-> 1,
     pDfd |-> [id |-> "dfd_src",
               model |-> CASE kind = "etc1s" -> KHR_DF_MODEL_ETC1S
                           [] kind = "uastc" -> KHR_DF_MODEL_UASTC
                           [] OTHER -> KHR_DF_MODEL_RGBSDA,
               transfer |-> transfer,
               channelId |-> IF alpha THEN KHR_DF_CHANNEL_UASTC_ALPHAPRESENT
                                      ELSE KHR_DF_CHANNEL_UASTC_RGB,
               numComponents |-> IF alpha THEN 4 ELSE 3],
     pData |-> IF dataState = "loaded" THEN "buf_src" ELSE NULL,
     activeStream |-> (dataState = "pending"),
     dataSize |-> SourceLevelOffset(kind, w, h, levels, layers, 0)
                  + layers * SourceImageSize(kind, w, h, 0),
     requiredLevelAlignment |-> IF kind = "uastc" THEN 16 ELSE 1,
     levelIndex |-> [l \in 0 .. (levels - 1) |->
        [byteOffset |-> SourceLevelOffset(kind, w, h, levels, layers, l),
         byteLength |-> layers * SourceImageSize(kind, w, h, l),
         uncompressedByteLength |->
            IF kind = "etc1s" THEN 0 ELSE layers * SourceImageSize(kind, w, h, l)]],
     sgdPresent |-> (kind = "etc1s" /\ sgdCase # "absent"),
     sgdByteLength |-> IF kind = "etc1s" THEN SgdByteLength(sgdCase, Len(descs)) ELSE 0,
     bgdh |-> IF kind = "etc1s" THEN GlobalHeader(sgdCase)
              ELSE [endpointsByteLength |-> 0, selectorsByteLength |-> 0,
                    tablesByteLength |-> 0],
     imageDescs |-> IF kind = "etc1s" THEN descs ELSE <<>>]

\* A level count the base dimensions allow.
RECURSIVE MaxLevelsOf(_)
MaxLevelsOf(d) == IF d <= 1 THEN 1 ELSE 1 + MaxLevelsOf(d \div 2)

Geometries(dims) ==
    {g \in [w : {d[1] : d \in dims}, h : {d[2] : d \in dims},
            levels : 1 .. MaxLevels, layers : 1 .. MaxLayers] :
        /\ <<g.w, g.h>> \in dims
        /\ g.levels <= MaxLevelsOf(Max(g.w, g.h))}

\* Descriptors as the encoder writes them: an alpha slice for every image
\* exactly when the texture has alpha.
UniformDescs(alpha, n) == [i \in 1 .. n |-> IF alpha THEN AlphaSlice ELSE NoAlphaSlice]

Transfers == {KHR_DF_TRANSFER_SRGB, KHR_DF_TRANSFER_LINEAR}

\* Every kind, transfer function, alpha and base size; one level, one layer.
FormatTextures ==
    {MkTexture(k, t, a, d[1], d[2], 1, 1, "loaded", "good", UniformDescs(a, 1)) :
        k \in Kinds, t \in Transfers, a \in BOOLEAN,
        d \in {<<4, 4>>, <<3, 4>>, <<4, 6>>, <<2, 2>>}}

\* Mip levels and array layers, on both transcodable kinds.
GeometryTextures ==
    {MkTexture(k, KHR_DF_TRANSFER_LINEAR, a, g.w, g.h, g.levels, g.layers,
               "loaded", "good", UniformDescs(a, g.levels * g.layers)) :
        k \in {"etc1s", "uastc"}, a \in BOOLEAN,
        g \in Geometries({<<4, 4>>, <<2, 2>>})}

\* Image data not loaded yet: a load pending on the stream, or no data.
UnloadedTextures ==
    {MkTexture(k, KHR_DF_TRANSFER_LINEAR, a, 4, 4, 1, n, ds, "good",
               UniformDescs(a, n)) :
        k \in {"etc1s", "uastc"}, a \in BOOLEAN, n \in 1 .. MaxLayers,
        ds \in {"pending", "missing"}}

\* Palette containers with each defect of the global data.
GlobalDataTextures ==
    {MkTexture("etc1s", KHR_DF_TRANSFER_LINEAR, a, 4, 4, 1, n, ds, c,
               UniformDescs(a, n)) :
        a \in BOOLEAN, n \in 1 .. MaxLayers, c \in SgdCases,
        ds \in {"loaded", "pending"}}

\* Palette containers with alpha and any combination of image descriptors,
\* over several layers or over several levels.
DescriptorTextures ==
    UNION {{MkTexture("etc1s", KHR_DF_TRANSFER_LINEAR, TRUE, 4, 4,
                      g.levels, g.layers, "loaded", "good", descs) :
                descs \in [1 .. (g.levels * g.layers) -> ImageDescs]} :
            g \in {x \in Geometries({<<4, 4>>}) : x.levels = 1 \/ x.layers = 1}}

\* Palette containers of one (luminance) and two (luminance, alpha) components.
ComponentTextures ==
    {[MkTexture("etc1s", t, c = 2, 4, 4, 1, 1, "loaded", "good",
                UniformDescs(c = 2, 1)) EXCEPT !.pDfd.numComponents = c] :
        t \in Transfers, c \in {1, 2}}

\* Palette containers without usable global data and a base size that is
\* not a power of two.
NpotDefectTextures ==
    {MkTexture("etc1s", KHR_DF_TRANSFER_LINEAR, a, 3, 4, 1, 1, "loaded", c,
               UniformDescs(a, 1)) :
        a \in BOOLEAN, c \in {"absent", "zeroLength", "overflow"}}

Textures ==
    FormatTextures \cup GeometryTextures \cup UnloadedTextures
    \cup GlobalDataTextures \cup DescriptorTextures \cup ComponentTextures
    \cup NpotDefectTextures


(***************************************************************************)
(* State.                                                                  *)
(***************************************************************************)
VARIABLES
    This,          \* the container ktxTexture2_TranscodeBasis is called on
    prototype,     \* the container created for the target format
    call,          \* outputFormat and transcodeFlags as passed by the caller
    pc,            \* position in ktxTexture2_TranscodeBasis and its workers
    result,        \* `result` of ktxTexture2_TranscodeBasis; its return value
    loc,           \* locals of the function and of the worker it calls
    engine,        \* what the transcoding engine has been asked to do
    heap,          \* allocation state of every object involved
    transcoderInitialized,  \* the static flag of ktxTexture2_TranscodeBasis
    pre            \* the container as it was when the call was made

vars == <<This, prototype, call, pc, result, loc, engine, heap,
          transcoderInitialized, pre>>

HeapIds ==
    {"buf_src", "buf_loaded", "dfd_src", "proto", "buf_proto", "dfd_proto",
     "firstImages"}

Alloc(h, id) == [h EXCEPT ![id] = "live"]

\* delete / free: nothing happens on a null pointer.
Free(h, id) ==
    IF id = NULL THEN h
    ELSE [h EXCEPT ![id] = IF @ = "live" THEN "freed" ELSE "double_free"]

LocInit ==
    [srgb |-> FALSE, hasAlpha |-> FALSE, outputFormat |-> "none",
     vkFormat |-> VK_FORMAT_UNDEFINED,
     level |-> 0, image |-> 0, levelOffsetWrite |-> 0, writeOffset |-> 0,
     levelSizeOut |-> 0, bufferByteLength |-> 0, result |-> KTX_SUCCESS,
     workerLine |-> 0, returnedAt |-> 0]

EngineInit ==
    [basisu_transcoder_init |-> 0, global_codebook |-> 0,
     decode_palettes |-> 0, decode_tables |-> 0,
     transcode_image |-> <<>>, error |-> KTX_SUCCESS, errorImage |-> <<>>]

Init ==
    /\ This \in Textures
    /\ prototype = NoPrototype
    /\ call = [outputFormat |-> "none", transcodeFlags |-> {}, number |-> 0]
    /\ pc = "idle"
    /\ result = KTX_SUCCESS
    /\ loc = LocInit
    /\ engine = EngineInit
    /\ heap = [id \in HeapIds |->
                 IF id = "dfd_src" \/ (id = "buf_src" /\ This.pData # NULL)
                 THEN "live" ELSE "unalloc"]
    /\ transcoderInitialized = FALSE
    /\ pre = This

\* return <code>; at source line `line` of ktxTexture2_TranscodeBasis
Return(code, line) ==
    /\ result' = code
    /\ loc' = [loc EXCEPT !.returnedAt = line]
    /\ pc' = "done"

(***************************************************************************)
(* ktxTexture2_TranscodeBasis, lines 159-340.                              *)
(***************************************************************************)
\* The caller invokes ktxTexture2_TranscodeBasis(This, outputFormat, flags).
Call ==
    /\ pc = "idle"
    /\ \E f \in TranscodeFormats, flags \in SUBSET TranscodeFlagBits :
          call' = [outputFormat |-> f, transcodeFlags |-> flags, number |-> 1]
    /\ pre' = This
    /\ pc' = "preconditions"
    /\ UNCHANGED <<This, prototype, result, loc, engine, heap,
                   transcoderInitialized>>

NoError == [code |-> KTX_SUCCESS, line |-> 0]

PreconditionError_FlagFirst(T, outputFormat, transcodeFlags) ==
    IF "KTX_TF_PVRTC_DECODE_TO_NEXT_POW2" \in transcodeFlags
    THEN [code |-> KTX_UNSUPPORTED_FEATURE, line |-> 178]
    ELSE IF /\ T.pDfd.model # KHR_DF_MODEL_UASTC
            /\ T.supercompressionScheme # KTX_SS_BASIS_UNIVERSAL
    THEN [code |-> KTX_INVALID_OPERATION, line |-> 168]
    ELSE IF /\ T.supercompressionScheme = KTX_SS_BASIS_UNIVERSAL
            /\ (~T.sgdPresent \/ T.sgdByteLength = 0)
    THEN [code |-> KTX_INVALID_OPERATION, line |-> 173]
    ELSE IF /\ outputFormat \in {"KTX_TTF_PVRTC1_4_RGB", "KTX_TTF_PVRTC1_4_RGBA"}
            /\ (~isPow2(T.baseWidth) \/ ~isPow2(T.baseHeight))
    THEN [code |-> KTX_INVALID_OPERATION, line |-> 185]
    ELSE NoError

PreconditionError_NoPow2Check(T, outputFormat, transcodeFlags) ==
    IF /\ T.pDfd.model # KHR_DF_MODEL_UASTC
       /\ T.supercompressionScheme # KTX_SS_BASIS_UNIVERSAL
    THEN [code |-> KTX_INVALID_OPERATION, line |-> 168]
    ELSE IF /\ T.supercompressionScheme = KTX_SS_BASIS_UNIVERSAL
            /\ (~T.sgdPresent \/ T.sgdByteLength = 0)
    THEN [code |-> KTX_INVALID_OPERATION, line |-> 173]
    ELSE IF "KTX_TF_PVRTC_DECODE_TO_NEXT_POW2" \in transcodeFlags
    THEN [code |-> KTX_UNSUPPORTED_FEATURE, line |-> 178]
    ELSE NoError

\* Lines 164-187: the four early returns, in source order.
PreconditionError(T, outputFormat, transcodeFlags) ==
    IF /\ T.pDfd.model # KHR_DF_MODEL_UASTC
       /\ T.supercompressionScheme # KTX_SS_BASIS_UNIVERSAL
    THEN [code |-> KTX_INVALID_OPERATION, line |-> 168]
    ELSE IF /\ T.supercompressionScheme = KTX_SS_BASIS_UNIVERSAL
            /\ (~T.sgdPresent \/ T.sgdByteLength = 0)
    THEN [code |-> KTX_INVALID_OPERATION, line |-> 173]
    ELSE IF "KTX_TF_PVRTC_DECODE_TO_NEXT_POW2" \in transcodeFlags
    THEN [code |-> KTX_UNSUPPORTED_FEATURE, line |-> 178]
    ELSE IF /\ outputFormat \in {"KTX_TTF_PVRTC1_4_RGB", "KTX_TTF_PVRTC1_4_RGBA"}
            /\ (~isPow2(T.baseWidth) \/ ~isPow2(T.baseHeight))
    THEN [code |-> KTX_INVALID_OPERATION, line |-> 185]
    ELSE NoError

CheckPreconditions ==
    /\ pc = "preconditions"
    /\ LET e == PreconditionError(This, call.outputFormat, call.transcodeFlags)
       IN  IF e.code # KTX_SUCCESS
           THEN Return(e.code, e.line)
           ELSE /\ pc' = "resolve"
                /\ UNCHANGED <<result, loc>>
    /\ UNCHANGED <<This, prototype, call, engine, heap, transcoderInitialized, pre>>

\* Lines 190-199: alpha from the component count (palette) or from the
\* channel id of the first sample (UASTC).
HasAlpha(T) ==
    IF T.supercompressionScheme = KTX_SS_BASIS_UNIVERSAL
    THEN T.pDfd.numComponents = 2 \/ T.pDfd.numComponents = 4
    ELSE T.pDfd.channelId = KHR_DF_CHANNEL_UASTC_ALPHAPRESENT

\* Lines 189-286.
ResolveFormat ==
    /\ pc = "resolve"
    /\ LET srgb == (This.pDfd.transfer = KHR_DF_TRANSFER_SRGB)
           hasAlpha == HasAlpha(This)
           outputFormat == ResolveOutputFormat(call.outputFormat, hasAlpha)
           vkFormat == VkFormatFor(outputFormat, srgb)
           l == [loc EXCEPT !.srgb = srgb, !.hasAlpha = hasAlpha,
                            !.outputFormat = outputFormat, !.vkFormat = vkFormat]
       IN  IF vkFormat = VK_FORMAT_UNDEFINED
           THEN /\ result' = KTX_INVALID_VALUE
                /\ loc' = [l EXCEPT !.returnedAt = 285]
                /\ pc' = "done"
           ELSE /\ loc' = l
                /\ pc' = "create"
                /\ UNCHANGED result
    /\ UNCHANGED <<This, prototype, call, engine, heap, transcoderInitialized, pre>>

\* Lines 291-313: ktxTexture2_Create succeeds or runs out of memory.
Create ==
    /\ pc = "create"
    /\ \/ /\ prototype' = CreatePrototype(This, loc.vkFormat)
          /\ heap' = Alloc(Alloc(Alloc(heap, "proto"), "buf_proto"), "dfd_proto")
          /\ result' = KTX_SUCCESS
          /\ pc' = "load"
          /\ UNCHANGED loc
       \/ /\ Return(KTX_OUT_OF_MEMORY, 312)
          /\ UNCHANGED <<prototype, heap>>
    /\ UNCHANGED <<This, call, engine, transcoderInitialized, pre>>

\* ktxTexture2_LoadImageData(This, NULL, 0) succeeding: the image data is
\* read from the stream into a buffer the container owns.
LoadImageData(T) == [T EXCEPT !.pData = "buf_loaded", !.activeStream = FALSE]

\* Lines 315-325: complete a pending load, or fail when there is no data.
LoadData ==
    /\ pc = "load"
    /\ IF This.pData # NULL
       THEN /\ pc' = "init"
            /\ UNCHANGED <<This, heap, result, loc>>
       ELSE IF This.activeStream
       THEN \/ /\ This' = LoadImageData(This)
               /\ heap' = Alloc(heap, "buf_loaded")
               /\ result' = KTX_SUCCESS
               /\ pc' = "init"
               /\ UNCHANGED loc
            \/ /\ Return(KTX_FILE_READ_ERROR, 320)
               /\ UNCHANGED <<This, heap>>
       ELSE /\ Return(KTX_INVALID_OPERATION, 323)
            /\ UNCHANGED <<This, heap>>
    /\ UNCHANGED <<prototype, call, engine, transcoderInitialized, pre>>

\* Lines 327-340: global initialisation of the engine, then the worker for
\* the source encoding is entered.  Nothing ever sets transcoderInitialized.
TranscoderInit ==
    /\ pc = "init"
    /\ engine' = IF ~transcoderInitialized
                 THEN [engine EXCEPT !.basisu_transcoder_init = @ + 1]
                 ELSE engine
    /\ IF This.supercompressionScheme = KTX_SS_BASIS_UNIVERSAL
       THEN /\ pc' = "etc1s"
            /\ loc' = [loc EXCEPT !.result = KTX_SUCCESS]
       ELSE \* lines 594-601 of ktxTexture2_transcodeUastc and the head of
            \* its level loop for the smallest mip
            /\ pc' = "uastc_loop"
            /\ loc' = [loc EXCEPT !.result = KTX_SUCCESS,
                                  !.bufferByteLength = prototype.dataSize,
                                  !.levelOffsetWrite = 0,
                                  !.level = This.numLevels - 1,
                                  !.writeOffset = 0,
                                  !.levelSizeOut = 0,
                                  !.image = 0]
    /\ UNCHANGED <<This, prototype, call, result, heap, transcoderInitialized, pre>>

(***************************************************************************)
(* ktxTexture2_transcodeEtc1s, lines 444-584.                              *)
(***************************************************************************)
GlobalDataError_NoBoundsCheck(T) ==
    IF ~(/\ T.bgdh.endpointsByteLength # 0
         /\ T.bgdh.selectorsByteLength # 0
         /\ T.bgdh.tablesByteLength # 0)
    THEN 461
    ELSE 0

\* Lines 457-486: the source line of the KTX_FILE_DATA_ERROR return taken,
\* 0 when the global data passes.
GlobalDataError(T) ==
    IF ~(/\ T.bgdh.endpointsByteLength # 0
         /\ T.bgdh.selectorsByteLength # 0
         /\ T.bgdh.tablesByteLength # 0)
    THEN 461
    ELSE IF TablesAddr(T.bgdh, ImageCount(T)) + T.bgdh.tablesByteLength
            > T.sgdByteLength
    THEN 485
    ELSE 0

\* The worker returns `code` to ktxTexture2_TranscodeBasis (line 335/338).
WorkerReturn(l, code, line) ==
    /\ result' = code
    /\ loc' = [l EXCEPT !.workerLine = line]
    /\ pc' = "fixup"

\* Lines 451-486.  firstImages is allocated between the two checks and is
\* not released by the second return.
Etc1sValidate ==
    /\ pc = "etc1s"
    /\ LET line == GlobalDataError(This)
       IN  IF line # 0
           THEN /\ WorkerReturn(loc, KTX_FILE_DATA_ERROR, line)
                /\ heap' = IF line = 485 THEN Alloc(heap, "firstImages") ELSE heap
           ELSE /\ heap' = Alloc(heap, "firstImages")
                /\ pc' = "etc1s_prepare"
                /\ UNCHANGED <<result, loc>>
    /\ UNCHANGED <<This, prototype, call, engine, transcoderInitialized, pre>>

\* Lines 491-545: the codebook, decode_palettes, decode_tables, and the head
\* of the level loop for the smallest mip.
Etc1sPrepare ==
    /\ pc = "etc1s_prepare"
    /\ engine' = [engine EXCEPT !.global_codebook = 1,
                                !.decode_palettes = @ + 1,
                                !.decode_tables = @ + 1]
    /\ loc' = [loc EXCEPT !.levelOffsetWrite = 0,
                          !.level = This.numLevels - 1,
                          !.writeOffset = 0,
                          !.levelSizeOut = 0,
                          !.image = FirstImage(This, This.numLevels - 1)]
    /\ pc' = "etc1s_loop"
    /\ UNCHANGED <<This, prototype, call, result, heap, transcoderInitialized, pre>>

EngineResults == {KTX_SUCCESS, KTX_TRANSCODE_FAILED, KTX_UNSUPPORTED_FEATURE}

\* One call of transcode_image, with the answer r of the engine.
EngineCall(e, level, image, writeOffset, bufferByteLength, size, r) ==
    [e EXCEPT !.transcode_image =
                  Append(@, [level |-> level, image |-> image,
                             writeOffset |-> writeOffset,
                             bufferByteLength |-> bufferByteLength,
                             size |-> size]),
              !.error = IF @ = KTX_SUCCESS THEN r ELSE @,
              !.errorImage = IF e.error = KTX_SUCCESS /\ r # KTX_SUCCESS
                             THEN <<level, image>> ELSE @]

AlphaSliceMissing_LengthOnly(desc) == desc.alphaSliceByteLength = 0

\* Lines 552-553.
AlphaSliceMissing(desc) ==
    desc.alphaSliceByteOffset = 0 \/ desc.alphaSliceByteLength = 0

\* Lines 546-568: one turn of the image loop.
Etc1sImage ==
    /\ pc = "etc1s_loop"
    /\ loc.level >= 0
    /\ loc.image < FirstImage(This, loc.level) + LevelImageCount(This, loc.level)
    /\ LET levelImageSizeOut ==
               ImageSize(prototype.vkFormat, prototype.baseWidth,
                         prototype.baseHeight, loc.level)
           bufferByteLength == prototype.dataSize - loc.writeOffset
       IN  IF loc.hasAlpha /\ AlphaSliceMissing(This.imageDescs[loc.image + 1])
           THEN /\ WorkerReturn(loc, KTX_FILE_DATA_ERROR, 554)
                /\ UNCHANGED <<engine, heap>>
           ELSE \E r \in EngineResults :
                /\ engine' = EngineCall(engine, loc.level, loc.image, loc.writeOffset,
                                        bufferByteLength, levelImageSizeOut, r)
                /\ IF r # KTX_SUCCESS
                   THEN \* goto cleanup
                        /\ WorkerReturn([loc EXCEPT !.result = r], r, 583)
                        /\ heap' = Free(heap, "firstImages")
                   ELSE /\ loc' = [loc EXCEPT
                                     !.result = r,
                                     !.writeOffset = @ + levelImageSizeOut,
                                     !.levelSizeOut = @ + levelImageSizeOut,
                                     !.image = @ + 1]
                        /\ UNCHANGED <<result, heap, pc>>
    /\ UNCHANGED <<This, prototype, call, transcoderInitialized, pre>>

LevelIndexEntry_NoUncompressed(levelOffsetWrite, levelSizeOut) ==
    [byteOffset |-> levelOffsetWrite,
     byteLength |-> levelSizeOut,
     uncompressedByteLength |-> 0]

\* Lines 569-571 and 646-649.
LevelIndexEntry(levelOffsetWrite, levelSizeOut) ==
    [byteOffset |-> levelOffsetWrite,
     byteLength |-> levelSizeOut,
     uncompressedByteLength |-> levelSizeOut]

Etc1sNextLevelOffset_NoPadding(alignment, levelOffsetWrite, levelSizeOut) ==
    levelOffsetWrite + levelSizeOut

\* Lines 572-576: where the palette worker starts the next level.
Etc1sNextLevelOffset(alignment, levelOffsetWrite, levelSizeOut) ==
    KTX_PADN(alignment, levelOffsetWrite + levelSizeOut)

\* Lines 569-577, then 525-545 for the next level: the level's index entry,
\* the padded write offset, and the head of the loop for the next level.
Etc1sLevelEnd ==
    /\ pc = "etc1s_loop"
    /\ loc.level >= 0
    /\ loc.image = FirstImage(This, loc.level) + LevelImageCount(This, loc.level)
    /\ LET next == Etc1sNextLevelOffset(prototype.requiredLevelAlignment,
                                        loc.levelOffsetWrite, loc.levelSizeOut)
       IN  /\ prototype' =
                [prototype EXCEPT !.levelIndex[loc.level] =
                    LevelIndexEntry(loc.levelOffsetWrite, loc.levelSizeOut)]
           /\ loc' = [loc EXCEPT
                        !.levelOffsetWrite = next,
                        !.level = @ - 1,
                        !.writeOffset = IF loc.level > 0 THEN next ELSE @,
                        !.levelSizeOut = IF loc.level > 0 THEN 0 ELSE @,
                        !.image = IF loc.level > 0
                                  THEN FirstImage(This, loc.level - 1) ELSE @]
    /\ UNCHANGED <<This, call, pc, result, engine, heap, transcoderInitialized, pre>>

\* Lines 579-583.
Etc1sFinish ==
    /\ pc = "etc1s_loop"
    /\ loc.level < 0
    /\ WorkerReturn([loc EXCEPT !.result = KTX_SUCCESS], KTX_SUCCESS, 583)
    /\ heap' = Free(heap, "firstImages")
    /\ UNCHANGED <<This, prototype, call, engine, transcoderInitialized, pre>>

(***************************************************************************)
(* ktxTexture2_transcodeUastc, lines 587-656.                              *)
(***************************************************************************)
\* Lines 631-645: one turn of the image loop.  The engine's answer is
\* stored in the worker's `result` and the loop goes on.
UastcImage ==
    /\ pc = "uastc_loop"
    /\ loc.level >= 0
    /\ loc.image < LevelImageCount(This, loc.level)
    /\ LET levelImageSizeOut ==
               ImageSize(prototype.vkFormat, prototype.baseWidth,
                         prototype.baseHeight, loc.level)
       IN  \E r \in EngineResults :
             /\ engine' = EngineCall(engine, loc.level, loc.image, loc.writeOffset,
                                     loc.bufferByteLength, levelImageSizeOut, r)
             /\ loc' = [loc EXCEPT
                          !.result = r,
                          !.writeOffset = @ + levelImageSizeOut,
                          !.bufferByteLength = @ - levelImageSizeOut,
                          !.levelSizeOut = @ + levelImageSizeOut,
                          !.image = @ + 1]
    /\ UNCHANGED <<This, prototype, call, pc, result, heap, transcoderInitialized, pre>>

\* Line 650: where the UASTC worker starts the next level.  The padding of
\* lines 653-654 comes after the loop, when no level is left to place.
UastcNextLevelOffset(alignment, levelOffsetWrite, levelSizeOut) ==
    levelOffsetWrite + levelSizeOut

\* Lines 646-651, then 604-630 for the next level.
UastcLevelEnd ==
    /\ pc = "uastc_loop"
    /\ loc.level >= 0
    /\ loc.image = LevelImageCount(This, loc.level)
    /\ LET next == UastcNextLevelOffset(prototype.requiredLevelAlignment,
                                        loc.levelOffsetWrite, loc.levelSizeOut)
       IN  /\ prototype' =
                [prototype EXCEPT !.levelIndex[loc.level] =
                    LevelIndexEntry(loc.levelOffsetWrite, loc.levelSizeOut)]
           /\ loc' = [loc EXCEPT
                        !.levelOffsetWrite = next,
                        !.level = @ - 1,
                        !.writeOffset = IF loc.level > 0 THEN next ELSE @,
                        !.levelSizeOut = IF loc.level > 0 THEN 0 ELSE @,
                        !.image = IF loc.level > 0 THEN 0 ELSE @]
    /\ UNCHANGED <<This, call, pc, result, engine, heap, transcoderInitialized, pre>>

\* Line 655: return KTX_SUCCESS, whatever the worker's `result` holds.
UastcReturnCode(workerResult) == KTX_SUCCESS

\* Lines 652-655.
UastcFinish ==
    /\ pc = "uastc_loop"
    /\ loc.level < 0
    /\ WorkerReturn([loc EXCEPT !.levelOffsetWrite =
                        KTX_PADN(prototype.requiredLevelAlignment, @)],
                    UastcReturnCode(loc.result), 655)
    /\ UNCHANGED <<This, prototype, call, engine, heap, transcoderInitialized, pre>>

(***************************************************************************)
(* ktxTexture2_TranscodeBasis, lines 342-368.                              *)
(***************************************************************************)
FixUpApplies_Always(code) == TRUE

\* Line 342: if (result == KTX_SUCCESS)
FixUpApplies(code) == code = KTX_SUCCESS

FixUpTexture_KeepScheme(T, P, vkFormat) ==
    [T EXCEPT !.vkFormat = vkFormat,
              !.isCompressed = P.isCompressed,
              !.requiredLevelAlignment = P.requiredLevelAlignment,
              !.levelIndex = P.levelIndex,
              !.pDfd = P.pDfd,
              !.pData = P.pData,
              !.dataSize = P.dataSize]

\* Lines 347-362: the container after the fix-up from prototype P.
FixUpTexture(T, P, vkFormat) ==
    [T EXCEPT !.vkFormat = vkFormat,
              !.isCompressed = P.isCompressed,
              !.supercompressionScheme = KTX_SS_NONE,
              !.requiredLevelAlignment = P.requiredLevelAlignment,
              !.levelIndex = P.levelIndex,
              !.pDfd = P.pDfd,
              !.pData = P.pData,
              !.dataSize = P.dataSize]

ClearPrototypeRefs_KeepData(P) == [P EXCEPT !.pDfd = NoDfd]

\* Lines 359, 363 and 364: the prototype gives up what the container took.
ClearPrototypeRefs(P) ==
    [P EXCEPT !.pDfd = NoDfd, !.pData = NULL, !.dataSize = 0]

\* Lines 342-365.
FixUp ==
    /\ pc = "fixup"
    /\ IF FixUpApplies(result)
       THEN /\ This' = FixUpTexture(This, prototype, loc.vkFormat)
            /\ heap' = Free(Free(heap, This.pDfd.id), This.pData)
            /\ prototype' = ClearPrototypeRefs(prototype)
       ELSE UNCHANGED <<This, heap, prototype>>
    /\ pc' = "destroy"
    /\ UNCHANGED <<call, result, loc, engine, transcoderInitialized, pre>>

\* ktxTexture2_Destroy: releases the descriptor block and the data the
\* container still refers to, then the container itself.
DestroyTexture(h, P) == Free(Free(Free(h, P.pDfd.id), P.pData), "proto")

\* Lines 366-367.
Destroy ==
    /\ pc = "destroy"
    /\ heap' = DestroyTexture(heap, prototype)
    /\ loc' = [loc EXCEPT !.returnedAt = 367]
    /\ pc' = "done"
    /\ UNCHANGED <<This, prototype, call, result, engine, transcoderInitialized, pre>>

Next ==
    \/ Call
    \/ CheckPreconditions
    \/ ResolveFormat
    \/ Create
    \/ LoadData
    \/ TranscoderInit
    \/ Etc1sValidate
    \/ Etc1sPrepare
    \/ Etc1sImage
    \/ Etc1sLevelEnd
    \/ Etc1sFinish
    \/ UastcImage
    \/ UastcLevelEnd
    \/ UastcFinish
    \/ FixUp
    \/ Destroy

Spec == Init /\ [][Next]_vars

(***************************************************************************)
(* Several calls, one after the other, in one process: the statics of      *)
(* lines 327 and 491 outlive a call, everything else of a call is local.   *)
(***************************************************************************)
MaxCalls == 2

\* Two levels of one image each, so that a call runs both loops of a worker.
RepeatTextures ==
    {MkTexture(k, KHR_DF_TRANSFER_LINEAR, a, 2, 2, 2, 1, ds, "good",
               UniformDescs(a, 2)) :
        k \in {"etc1s", "uastc"}, a \in BOOLEAN, ds \in {"loaded", "pending"}}

InitRepeat ==
    /\ This \in RepeatTextures
    /\ prototype = NoPrototype
    /\ call = [outputFormat |-> "none", transcodeFlags |-> {}, number |-> 0]
    /\ pc = "idle"
    /\ result = KTX_SUCCESS
    /\ loc = LocInit
    /\ engine = EngineInit
    /\ heap = [id \in HeapIds |->
                 IF id = "dfd_src" \/ (id = "buf_src" /\ This.pData # NULL)
                 THEN "live" ELSE "unalloc"]
    /\ transcoderInitialized = FALSE
    /\ pre = This

\* What of the engine's record belongs to the process (the counts of
\* basisu_transcoder_init, line 331, and of the codebook's construction,
\* line 491); the rest belongs to the `bit` object of one call (line 495).
EngineAtEntry(e) ==
    [EngineInit EXCEPT !.basisu_transcoder_init = e.basisu_transcoder_init,
                       !.global_codebook = e.global_codebook]

\* The caller invokes ktxTexture2_TranscodeBasis on the container again,
\* after the previous call has returned.
CallAgain ==
    /\ pc = "done"
    /\ call.number < MaxCalls
    /\ \E f \in TranscodeFormats, flags \in SUBSET TranscodeFlagBits :
          call' = [outputFormat |-> f, transcodeFlags |-> flags,
                   number |-> call.number + 1]
    /\ pre' = This
    /\ prototype' = NoPrototype
    /\ result' = KTX_SUCCESS
    /\ loc' = LocInit
    /\ engine' = EngineAtEntry(engine)
    /\ pc' = "preconditions"
    /\ UNCHANGED <<This, heap, transcoderInitialized>>

NextRepeat ==
    \/ Call
    \/ CallAgain
    \/ CheckPreconditions
    \/ ResolveFormat
    \/ Create
    \/ LoadData
    \/ TranscoderInit
    \/ Etc1sValidate
    \/ Etc1sPrepare
    \/ Etc1sImage
    \/ Etc1sLevelEnd
    \/ Etc1sFinish
    \/ UastcImage
    \/ UastcLevelEnd
    \/ UastcFinish
    \/ FixUp
    \/ Destroy

SpecRepeat == InitRepeat /\ [][NextRepeat]_vars


(***************************************************************************)
(* Properties.                                                             *)
(***************************************************************************)
Returned == pc = "done"

Failed == Returned /\ result # KTX_SUCCESS

\* The fix-up of lines 342-365 has been applied to the container.
FixedUp == This.pData = "buf_proto"

\* The container as the caller passed it, or as a completed pending load
\* of its image data left it.
Untouched ==
    \/ This = pre
    \/ /\ pre.pData = NULL
       /\ pre.activeStream
       /\ This = [pre EXCEPT !.pData = "buf_loaded", !.activeStream = FALSE]

C2_EngineErrorReturnedAndNotFixedUp ==
    (pc \in {"destroy", "done"} /\ engine.error # KTX_SUCCESS) =>
        /\ result = engine.error
        /\ ~FixedUp


(***************************************************************************)
(* The preconditions as the interface states them, on the container and    *)
(* the arguments of the call.                                              *)
(***************************************************************************)
NotTranscodable ==
    /\ pre.supercompressionScheme # KTX_SS_BASIS_UNIVERSAL
    /\ pre.pDfd.model # KHR_DF_MODEL_UASTC

GlobalDataMissing ==
    /\ pre.supercompressionScheme = KTX_SS_BASIS_UNIVERSAL
    /\ (~pre.sgdPresent \/ pre.sgdByteLength = 0)

NextPow2Requested == "KTX_TF_PVRTC_DECODE_TO_NEXT_POW2" \in call.transcodeFlags

PowerOfTwo(n) == n \in {1, 2, 4, 8, 16, 32, 64}

NonPowerOfTwoBase == ~PowerOfTwo(pre.baseWidth) \/ ~PowerOfTwo(pre.baseHeight)

Pvrtc1Formats == {"KTX_TTF_PVRTC1_4_RGB", "KTX_TTF_PVRTC1_4_RGBA"}

PvrtcFormats ==
    Pvrtc1Formats \cup {"KTX_TTF_PVRTC2_4_RGB", "KTX_TTF_PVRTC2_4_RGBA"}

\* The call returned from one of the four precondition checks, before the
\* output format was resolved or validated, before the prototype was
\* created and before any engine operation.
ReturnedFromPrecondition(code, line) ==
    /\ result = code
    /\ loc.returnedAt = line
    /\ loc.outputFormat = "none"
    /\ loc.vkFormat = VK_FORMAT_UNDEFINED
    /\ prototype = NoPrototype
    /\ heap["proto"] = "unalloc"
    /\ engine = EngineInit

\* The first violated precondition decides, with (d) applying to the
\* target formats `pvrtc`.
FirstViolatedDecides(pvrtc) ==
    Returned =>
        /\ NotTranscodable => ReturnedFromPrecondition(KTX_INVALID_OPERATION, 168)
        /\ (~NotTranscodable /\ GlobalDataMissing)
             => ReturnedFromPrecondition(KTX_INVALID_OPERATION, 173)
        /\ (~NotTranscodable /\ ~GlobalDataMissing /\ NextPow2Requested)
             => ReturnedFromPrecondition(KTX_UNSUPPORTED_FEATURE, 178)
        /\ (/\ ~NotTranscodable /\ ~GlobalDataMissing /\ ~NextPow2Requested
            /\ call.outputFormat \in pvrtc /\ NonPowerOfTwoBase)
             => ReturnedFromPrecondition(KTX_INVALID_OPERATION, 185)

\* C3 as stated: preconditions (a) not transcodable, (b) global data
\* missing, (c) next-power-of-two flag, (d) PVRTC target on a base size that
\* is not a power of two are checked in this order, the first violated one
\* decides the error, and all are checked before format validation,
\* prototype creation and any engine call.
C3_PreconditionOrderAnyPvrtc == FirstViolatedDecides(PvrtcFormats)

\* C3 amended: the same, with (d) applying to the PVRTC1 targets only.
C3_PreconditionOrder == FirstViolatedDecides(Pvrtc1Formats)

C3_Witness ==
    /\ Returned
    /\ NextPow2Requested
    /\ call.outputFormat \in Pvrtc1Formats
    /\ NonPowerOfTwoBase
    /\ result = KTX_UNSUPPORTED_FEATURE

\* C4 as stated: any PVRTC target on a transcodable container whose base
\* width or height is not a power of two fails with invalid-operation,
\* whatever the flags.
C4_PvrtcNonPow2InvalidOperation ==
    (/\ Returned
     /\ ~NotTranscodable
     /\ call.outputFormat \in PvrtcFormats
     /\ NonPowerOfTwoBase) => result = KTX_INVALID_OPERATION

\* C4 amended: a PVRTC1 target on a transcodable container whose base width
\* or height is not a power of two always fails: with unsupported-feature
\* when the next-power-of-two flag is set and the global data is in place,
\* with invalid-operation otherwise.
C4_Pvrtc1NonPow2Fails ==
    (/\ Returned
     /\ ~NotTranscodable
     /\ call.outputFormat \in Pvrtc1Formats
     /\ NonPowerOfTwoBase) =>
        result = IF NextPow2Requested /\ ~GlobalDataMissing
                 THEN KTX_UNSUPPORTED_FEATURE
                 ELSE KTX_INVALID_OPERATION

C4_Witness ==
    /\ Returned
    /\ call.outputFormat = "KTX_TTF_PVRTC1_4_RGBA"
    /\ call.transcodeFlags = {"KTX_TF_TRANSCODE_ALPHA_DATA_TO_OPAQUE_FORMATS"}
    /\ pre.baseHeight = 6
    /\ pre.pDfd.model = KHR_DF_MODEL_UASTC
    /\ result = KTX_INVALID_OPERATION
    /\ loc.returnedAt = 185


\* The output format has been resolved (lines 204-221 have run).
Resolved == loc.outputFormat # "none"

\* C5: the resolved output format is determined by the requested format and
\* whether the source has alpha: ETC gives ETC2_RGBA with alpha and ETC1_RGB
\* without, BC1_OR_3 gives BC3_RGBA or BC1_RGB, the PVRTC1 and PVRTC2 RGBA
\* requests stay RGBA with alpha and become the RGB variant without, and
\* every other format resolves to itself.
C5_FormatResolution ==
    Resolved =>
        LET f == call.outputFormat
            a == loc.hasAlpha
        IN  /\ f = "KTX_TTF_ETC" =>
                 loc.outputFormat = IF a THEN "KTX_TTF_ETC2_RGBA" ELSE "KTX_TTF_ETC1_RGB"
            /\ f = "KTX_TTF_BC1_OR_3" =>
                 loc.outputFormat = IF a THEN "KTX_TTF_BC3_RGBA" ELSE "KTX_TTF_BC1_RGB"
            /\ f = "KTX_TTF_PVRTC1_4_RGBA" =>
                 loc.outputFormat = IF a THEN f ELSE "KTX_TTF_PVRTC1_4_RGB"
            /\ f = "KTX_TTF_PVRTC2_4_RGBA" =>
                 loc.outputFormat = IF a THEN f ELSE "KTX_TTF_PVRTC2_4_RGB"
            /\ f \notin AmbiguousFormats => loc.outputFormat = f

C5_Witness ==
    /\ call.outputFormat = "KTX_TTF_PVRTC2_4_RGBA"
    /\ loc.outputFormat = "KTX_TTF_PVRTC2_4_RGB"
    /\ pre.pDfd.numComponents = 1

SrgbTags ==
    {"VK_FORMAT_ETC2_R8G8B8_SRGB_BLOCK", "VK_FORMAT_ETC2_R8G8B8A8_SRGB_BLOCK",
     "VK_FORMAT_BC1_RGB_SRGB_BLOCK", "VK_FORMAT_BC3_SRGB_BLOCK",
     "VK_FORMAT_PVRTC1_4BPP_SRGB_BLOCK_IMG", "VK_FORMAT_PVRTC2_4BPP_SRGB_BLOCK_IMG",
     "VK_FORMAT_BC7_SRGB_BLOCK", "VK_FORMAT_ASTC_4x4_SRGB_BLOCK",
     "VK_FORMAT_R8G8B8A8_SRGB"}

UnormTags ==
    {"VK_FORMAT_ETC2_R8G8B8_UNORM_BLOCK", "VK_FORMAT_ETC2_R8G8B8A8_UNORM_BLOCK",
     "VK_FORMAT_EAC_R11_UNORM_BLOCK", "VK_FORMAT_EAC_R11G11_UNORM_BLOCK",
     "VK_FORMAT_BC1_RGB_UNORM_BLOCK", "VK_FORMAT_BC3_UNORM_BLOCK",
     "VK_FORMAT_BC4_UNORM_BLOCK", "VK_FORMAT_BC5_UNORM_BLOCK",
     "VK_FORMAT_PVRTC1_4BPP_UNORM_BLOCK_IMG", "VK_FORMAT_PVRTC2_4BPP_UNORM_BLOCK_IMG",
     "VK_FORMAT_BC7_UNORM_BLOCK", "VK_FORMAT_ASTC_4x4_UNORM_BLOCK",
     "VK_FORMAT_R5G6B5_UNORM_PACK16", "VK_FORMAT_B5G6R5_UNORM_PACK16",
     "VK_FORMAT_R4G4B4A4_UNORM_PACK16", "VK_FORMAT_R8G8B8A8_UNORM"}

SourceIsSrgb == pre.pDfd.transfer = KHR_DF_TRANSFER_SRGB

SupportedFormats == ConcreteFormats \cup AmbiguousFormats

\* The targets whose Vulkan format exists in a UNORM variant only.
LinearOnlyFormats ==
    {"KTX_TTF_ETC2_EAC_R11", "KTX_TTF_ETC2_EAC_RG11", "KTX_TTF_BC4_R",
     "KTX_TTF_BC5_RG", "KTX_TTF_RGB565", "KTX_TTF_BGR565", "KTX_TTF_RGBA4444"}

\* A format value outside the supported enumeration that got past the
\* preconditions is answered with KTX_INVALID_VALUE and no tag.
InvalidFormatRejected ==
    (Resolved /\ call.outputFormat \notin SupportedFormats) =>
        /\ Returned
        /\ result = KTX_INVALID_VALUE
        /\ loc.vkFormat = VK_FORMAT_UNDEFINED
        /\ prototype = NoPrototype

\* C6 as stated: for every supported output format the tag chosen is the
\* sRGB one when the source transfer function is sRGB and the UNORM one
\* otherwise; an unsupported format value yields invalid-argument.
C6_TagFollowsTransferFunction ==
    /\ (Resolved /\ call.outputFormat \in SupportedFormats) =>
          IF SourceIsSrgb THEN loc.vkFormat \in SrgbTags
                          ELSE loc.vkFormat \in UnormTags
    /\ InvalidFormatRejected

\* C6 amended: the tag chosen is the sRGB one exactly when the source
\* transfer function is sRGB for every supported format except the EAC R11,
\* EAC RG11, BC4, BC5, RGB565, BGR565 and RGBA4444 targets, whose tag is the
\* UNORM one whatever the transfer function; an unsupported format value
\* yields invalid-argument.
C6_TagFollowsTransferWhereSrgbExists ==
    /\ (Resolved /\ call.outputFormat \in SupportedFormats) =>
          IF SourceIsSrgb /\ loc.outputFormat \notin LinearOnlyFormats
          THEN loc.vkFormat \in SrgbTags
          ELSE loc.vkFormat \in UnormTags
    /\ InvalidFormatRejected

C6_Witness ==
    /\ SourceIsSrgb
    /\ call.outputFormat = "KTX_TTF_BC1_OR_3"
    /\ loc.vkFormat = "VK_FORMAT_BC3_SRGB_BLOCK"

\* Sum of the level byte lengths of T, every level that is followed by
\* another one in the buffer (every level but the base) padded up to the
\* required level alignment.
RECURSIVE PaddedLengthSum(_, _)
PaddedLengthSum(T, level) ==
    IF level >= T.numLevels THEN 0
    ELSE (IF level = 0 THEN T.levelIndex[level].byteLength
          ELSE KTX_PADN(T.requiredLevelAlignment, T.levelIndex[level].byteLength))
         + PaddedLengthSum(T, level + 1)

\* C7: after a successful transcode by either path every level has
\* byteLength = uncompressedByteLength, and the level byte lengths, each
\* padded to the required level alignment before the next level's offset,
\* add up to the container's data size.
C7_LevelIndexConsistent ==
    (Returned /\ result = KTX_SUCCESS) =>
        /\ \A l \in Levels(This) :
              This.levelIndex[l].byteLength = This.levelIndex[l].uncompressedByteLength
        /\ PaddedLengthSum(This, 0) = This.dataSize

C7_Witness ==
    /\ Returned
    /\ result = KTX_SUCCESS
    /\ This.numLevels = 2
    /\ This.requiredLevelAlignment = 4
    /\ This.levelIndex[1].byteLength = 2
    /\ This.dataSize = 12


\* The call went down the palette path and ktxTexture2_transcodeEtc1s has
\* returned.
PaletteWorkerReturned ==
    /\ pre.supercompressionScheme = KTX_SS_BASIS_UNIVERSAL
    /\ loc.workerLine # 0

\* Images (0-based, as the code indexes them) whose descriptor declares an
\* alpha slice of zero offset or zero length.
ImagesWithoutAlphaSlice ==
    {i \in 0 .. (Len(pre.imageDescs) - 1) :
        \/ pre.imageDescs[i + 1].alphaSliceByteOffset = 0
        \/ pre.imageDescs[i + 1].alphaSliceByteLength = 0}

EngineImages ==
    {engine.transcode_image[k].image : k \in 1 .. Len(engine.transcode_image)}

\* C8 as stated: on the palette path with a source that has alpha, an image
\* descriptor with a zero alpha slice offset or length makes the call end
\* with KTX_FILE_DATA_ERROR, and the engine is not invoked for that image.
C8_MissingAlphaSliceIsDataError ==
    (/\ Returned
     /\ PaletteWorkerReturned
     /\ loc.hasAlpha
     /\ ImagesWithoutAlphaSlice # {}) =>
        /\ result = KTX_FILE_DATA_ERROR
        /\ EngineImages \cap ImagesWithoutAlphaSlice = {}

\* C8 amended: in that case the call never ends with success and the
\* engine is never invoked for such an image; the call ends with
\* KTX_FILE_DATA_ERROR unless the engine failed on an image processed
\* before, and then with the engine's error.
C8_MissingAlphaSliceNeverSucceeds ==
    (/\ pc \in {"fixup", "destroy", "done"}
     /\ PaletteWorkerReturned
     /\ loc.hasAlpha
     /\ ImagesWithoutAlphaSlice # {}) =>
        /\ result # KTX_SUCCESS
        /\ ~FixedUp
        /\ result = IF engine.error # KTX_SUCCESS THEN engine.error
                    ELSE KTX_FILE_DATA_ERROR
        /\ EngineImages \cap ImagesWithoutAlphaSlice = {}

C8_Witness ==
    /\ Returned
    /\ loc.hasAlpha
    /\ result = KTX_FILE_DATA_ERROR
    /\ loc.workerLine = 554
    /\ EngineImages = {0}
    /\ ImagesWithoutAlphaSlice = {1}
    /\ pre.imageDescs[2].alphaSliceByteLength # 0

\* The global header declares a zero endpoints, selectors or tables length,
\* or its tables end beyond the declared length of the global data.
GlobalDataCorrupt ==
    LET h == pre.bgdh
        tablesOffset == SizeofGlobalHeader
                        + SizeofImageDesc * (pre.numLevels * pre.numLayers)
                        + h.endpointsByteLength + h.selectorsByteLength
    IN  \/ h.endpointsByteLength = 0
        \/ h.selectorsByteLength = 0
        \/ h.tablesByteLength = 0
        \/ tablesOffset + h.tablesByteLength > pre.sgdByteLength

\* C9: on the palette path, corrupt global data makes the worker fail with
\* KTX_FILE_DATA_ERROR, and no engine operation (decode_palettes,
\* decode_tables, transcode_image) is invoked before it does, nor after.
C9_CorruptGlobalDataFailsBeforeEngine ==
    (pre.supercompressionScheme = KTX_SS_BASIS_UNIVERSAL /\ GlobalDataCorrupt) =>
        /\ engine.decode_palettes = 0
        /\ engine.decode_tables = 0
        /\ engine.transcode_image = <<>>
        /\ pc \notin {"etc1s_prepare", "etc1s_loop"}
        /\ loc.workerLine # 0 =>
              /\ result = KTX_FILE_DATA_ERROR
              /\ loc.workerLine \in {461, 485}
              /\ ~FixedUp

C9_Witness ==
    /\ pc = "fixup"
    /\ loc.workerLine = 485
    /\ result = KTX_FILE_DATA_ERROR
    /\ pre.bgdh.tablesByteLength # 0
    /\ engine.transcode_image = <<>>

\* The prototype container has been created by this call.
PrototypeCreated == heap["proto"] # "unalloc"

\* C10: every call that created the prototype has disposed of it when it
\* returns.
C10_PrototypeDisposedOnReturn ==
    (Returned /\ PrototypeCreated) => heap["proto"] = "freed"

(***************************************************************************)
(* Properties of a sequence of calls.                                      *)
(***************************************************************************)
\* C11: over any sequence of calls, basisu_transcoder_init has run at most
\* once in the process and the shared codebook of the palette path has
\* been constructed at most once.
C11_InitialisedAtMostOnce ==
    /\ engine.basisu_transcoder_init <= 1
    /\ engine.global_codebook <= 1

(***************************************************************************)
(* Properties of the commit step.                                          *)
(***************************************************************************)
\* The worker succeeded and lines 342-365 have run.
Committed == pc \in {"destroy", "done"} /\ result = KTX_SUCCESS

\* The data buffer the container owned when the commit began.
PreviousData == IF pre.pData # NULL THEN pre.pData ELSE "buf_loaded"

\* C12: after the commit the container owns the prototype's data buffer
\* and descriptor block, both live; its previous buffer and descriptor
\* block have each been released once; the prototype refers to neither
\* before and after it is disposed of; no object is ever released twice,
\* and on return nothing is live but what the container refers to.
C12_OwnershipMovesOnce ==
    /\ \A id \in HeapIds : heap[id] # "double_free"
    /\ Committed =>
          /\ This.pData = "buf_proto"
          /\ This.pDfd.id = "dfd_proto"
          /\ heap["buf_proto"] = "live"
          /\ heap["dfd_proto"] = "live"
          /\ heap[PreviousData] = "freed"
          /\ heap["dfd_src"] = "freed"
          /\ prototype.pData = NULL
          /\ prototype.pDfd.id = NULL
          /\ pc = "done" =>
                \A id \in HeapIds :
                    heap[id] = "live" => id \in {This.pData, This.pDfd.id}

C12_Witness ==
    /\ pc = "done"
    /\ result = KTX_SUCCESS
    /\ pre.pData = NULL
    /\ heap["buf_loaded"] = "freed"
    /\ heap["proto"] = "freed"
    /\ This.pData = "buf_proto"

(***************************************************************************)
(* Properties of the level index the workers write.                        *)
(***************************************************************************)
\* The worker of the given source line has returned KTX_SUCCESS.
WorkerSucceeded(line) ==
    /\ pc \in {"fixup", "destroy", "done"}
    /\ loc.workerLine = line
    /\ result = KTX_SUCCESS

\* The level index the worker wrote and the alignment it was written for:
\* in the prototype until the commit, in the container after it.
WrittenLevelIndex ==
    IF pc = "fixup" THEN prototype.levelIndex ELSE This.levelIndex

WrittenAlignment ==
    IF pc = "fixup" THEN prototype.requiredLevelAlignment
    ELSE This.requiredLevelAlignment

\* The least multiple of a that is not below x.
RoundUp(x, a) == CHOOSE m \in x .. (x + a - 1) : m % a = 0

\* The smallest mip starts at 0 and every other level starts where the
\* level above it ends, rounded up to the alignment; every level is as
\* long as its images of the target format together.
PaddedLayout(idx, alignment) ==
    LET n == pre.numLevels
    IN  /\ idx[n - 1].byteOffset = 0
        /\ \A L \in 0 .. (n - 2) :
              idx[L].byteOffset =
                  RoundUp(idx[L + 1].byteOffset + idx[L + 1].byteLength, alignment)
        /\ \A L \in 0 .. (n - 1) :
              /\ idx[L].byteLength =
                    LevelImageCount(pre, L)
                    * ImageSize(loc.vkFormat, pre.baseWidth, pre.baseHeight, L)
              /\ idx[L].uncompressedByteLength = idx[L].byteLength

\* The engine is given the images of one level after those of every
\* higher level.
HighestLevelFirst ==
    \A i, j \in 1 .. Len(engine.transcode_image) :
        i < j => engine.transcode_image[i].level >= engine.transcode_image[j].level

\* C13: the palette path works from the highest level index down to level
\* 0, and after its success the smallest mip is at byteOffset 0, every
\* other level at the end of the level above it rounded up to the required
\* alignment, every byteOffset is a multiple of the alignment, no two
\* levels overlap, and a level's byteLength is its image count times the
\* prototype's image size at that level.
C13_PaletteLevelLayout ==
    pre.supercompressionScheme = KTX_SS_BASIS_UNIVERSAL =>
        /\ HighestLevelFirst
        /\ WorkerSucceeded(583) =>
              LET idx == WrittenLevelIndex
                  levels == 0 .. (pre.numLevels - 1)
              IN  /\ PaddedLayout(idx, WrittenAlignment)
                  /\ \A L \in levels : idx[L].byteOffset % WrittenAlignment = 0
                  /\ \A L, M \in levels :
                        L < M => idx[M].byteOffset + idx[M].byteLength
                                 <= idx[L].byteOffset

C13_Witness ==
    /\ pc = "done"
    /\ WorkerSucceeded(583)
    /\ pre.supercompressionScheme = KTX_SS_BASIS_UNIVERSAL
    /\ pre.numLevels = 2
    /\ This.requiredLevelAlignment = 4
    /\ This.levelIndex[1] = [byteOffset |-> 0, byteLength |-> 2,
                             uncompressedByteLength |-> 2]
    /\ This.levelIndex[0].byteOffset = 4
    /\ Len(engine.transcode_image) = 2

\* C14: the level index the universal path writes is the one the palette
\* path writes for the same geometry, image sizes and alignment: the padded
\* layout of C13, also when a level's byteLength is not a multiple of an
\* alignment greater than 1.
C14_UniversalLayoutAsPalette ==
    WorkerSucceeded(655) => PaddedLayout(WrittenLevelIndex, WrittenAlignment)

(***************************************************************************)
(* Properties of a call on a container already transcoded.                 *)
(***************************************************************************)
\* The call in progress, or just returned, is a later call on a container
\* that an earlier call has transcoded.
CalledAfterTranscode == call.number >= 2 /\ pre.pData = "buf_proto"

\* C15: a call on a container that an earlier call has transcoded, whatever
\* its output format and flags, gets no further than the first
\* precondition, returns KTX_INVALID_OPERATION from line 168, and leaves
\* the container (format tag, level index, data buffer and all) as the
\* earlier transcode produced it.
C15_TranscodeIsTerminal ==
    CalledAfterTranscode =>
        /\ pre.supercompressionScheme = KTX_SS_NONE
        /\ pre.pDfd.model # KHR_DF_MODEL_UASTC
        /\ pc \in {"preconditions", "done"}
        /\ This = pre
        /\ heap[This.pData] = "live"
        /\ heap[This.pDfd.id] = "live"
        /\ pc = "done" =>
              /\ result = KTX_INVALID_OPERATION
              /\ loc.returnedAt = 168

C15_Witness ==
    /\ CalledAfterTranscode
    /\ pc = "done"
    /\ result = KTX_INVALID_OPERATION
    /\ call.outputFormat = "KTX_TTF_RGBA32"
    /\ call.transcodeFlags = {"KTX_TF_PVRTC_DECODE_TO_NEXT_POW2"}
    /\ This.vkFormat = "VK_FORMAT_R5G6B5_UNORM_PACK16"
    /\ This.levelIndex[0].byteOffset = 4

=============================================================================
